---------------------------- MODULE Spec2Model ----------------------------
(***************************************************************************)
(* Model of key-bpm-analyzer: the MusicAnalyzer pipeline                   *)
(* (src/audio_analyzer.py) and the Flask upload handler (src/app.py).      *)
(*                                                                         *)
(* Units.  Tempo values are integers in thousandths of a BPM, spectral     *)
(* centroids are integers in Hz, zero-crossing rates are integers in       *)
(* thousandths.  The thresholds of the source are written in these units   *)
(* (140 BPM = 140000, 0.1 = 100).  Correlations are kept as exact          *)
(* rationals with a common positive denominator, or NaN.                   *)
(***************************************************************************)
EXTENDS Integers, Sequences, FiniteSets, TLC

VARIABLES
    analyzer,   \* the MusicAnalyzer object (its fields), or NoneValue
    audio,      \* the decoded input of the current analyze_song call
    apc,        \* position of the single-call pipeline: "ready" | "done"
    result,     \* what analyze_song returned (NoneValue or a result record)
    chroma,     \* key estimator: the chroma matrix, one 12-vector per frame
    best_key,   \* key estimator: index of the selected key, -1 before a run
    memo,       \* session: input -> outcome of its first analysis
    last_input, \* session: index of the latest call's input, 0 before any
    last_result,\* session: the outcome of the latest call
    files,      \* upload folder: path -> [owner, content], NoFile when absent
    req         \* upload requests: per request its input, position, response

vars == <<analyzer, audio, apc, result, chroma, best_key, memo, last_input,
          last_result, files, req>>

(***************************************************************************)
(* Values                                                                  *)
(***************************************************************************)
NoneValue == [tag |-> "None"]

\* MusicAnalyzer.__init__: the object holds a logger and nothing else.
MusicAnalyzer == [tag |-> "MusicAnalyzer", logger |-> "audio_analyzer"]

key_names == <<"C", "C#", "D", "D#", "E", "F", "F#", "G", "G#", "A", "A#", "B">>

base_profile == <<1, 0, 1, 0, 1, 1, 0, 1, 0, 1, 0, 1>>

(***************************************************************************)
(* Tempo reconciliation, audio_analyzer.py 37-46                           *)
(***************************************************************************)
Abs(x) == IF x < 0 THEN -x ELSE x

\* A variant that also averages at a difference of exactly 20 BPM.
reconcile_ge(tempo, tempo_alt) ==
    IF Abs(tempo - tempo_alt) >= 20000
    THEN (tempo + tempo_alt) \div 2
    ELSE tempo

reconcile_bpm(tempo, tempo_alt) ==
    IF Abs(tempo - tempo_alt) > 20000
    THEN (tempo + tempo_alt) \div 2
    ELSE tempo

\* round(x, 2): x in thousandths, to the nearest hundredth, ties to even.
Round2(x) ==
    LET r == x % 10
        lo == x - r
    IN  IF r < 5 THEN lo
        ELSE IF r > 5 THEN lo + 10
        ELSE IF (lo \div 10) % 2 = 0 THEN lo ELSE lo + 10

(***************************************************************************)
(* Key estimation, audio_analyzer.py 50-67                                 *)
(***************************************************************************)
PitchClasses == 0..11

\* A 12-vector as a tuple: element j + 1 is f[j], j = 0..11.
Vec12(f) == <<f[0], f[1], f[2], f[3], f[4], f[5],
              f[6], f[7], f[8], f[9], f[10], f[11]>>

\* np.roll(v, i): element j of the result is element (j - i) mod 12 of v
\* (tuples are 1-based, pitch classes 0-based).
Roll(v, i) == Vec12([j \in PitchClasses |-> v[((j - i) % 12) + 1]])

\* A variant that rotates the base profile the other way.
key_profiles_backwards(k) == Roll(base_profile, -k)

key_profiles(k) == Roll(base_profile, k)

RECURSIVE SumSeq(_, _)
SumSeq(v, n) == IF n = 0 THEN 0 ELSE v[n] + SumSeq(v, n - 1)

RECURSIVE Dot(_, _, _)
Dot(u, v, n) == IF n = 0 THEN 0 ELSE u[n] * v[n] + Dot(u, v, n - 1)

\* np.mean(chroma, axis=1) is the column sums divided by the number of
\* frames.  A correlation does not change when its argument is multiplied
\* by a positive number, so the column sums stand for the mean.
ZeroVec == Vec12([j \in PitchClasses |-> 0])

RECURSIVE ColumnSums(_, _)
ColumnSums(m, n) ==
    IF n = 0 THEN ZeroVec
    ELSE LET rest == ColumnSums(m, n - 1)
         IN  Vec12([j \in PitchClasses |-> rest[j + 1] + m[n][j + 1]])

chroma_mean(m) == ColumnSums(m, Len(m))

\* 12^2 times the variance of a 12-vector.
Var12(v) == 12 * Dot(v, v, 12) - SumSeq(v, 12) * SumSeq(v, 12)

\* np.corrcoef(x, profile)[0, 1] = cov / sqrt(var_x * var_profile).  Every
\* profile is a rotation of base_profile, so var_profile is one positive
\* number, and for one x the twelve correlations share the positive
\* denominator sqrt(var_x * var_profile): the numerator cov orders them.
\* With var_x = 0 numpy divides 0 by 0 and the correlation is NaN.
NaN == [nan |-> TRUE, num |-> 0]

corrcoef(x, profile) ==
    IF Var12(x) = 0 THEN NaN
    ELSE [nan |-> FALSE,
          num |-> 12 * Dot(x, profile, 12) - SumSeq(x, 12) * SumSeq(profile, 12)]

\* key_scores: the score of the key with index k is element k + 1.
key_scores(x) == Vec12([k \in PitchClasses |-> corrcoef(x, key_profiles(k))])

\* IEEE comparison: anything compared with NaN is false.
FGt(a, b) == ~a.nan /\ ~b.nan /\ a.num > b.num

FGe(a, b) == ~a.nan /\ ~b.nan /\ a.num >= b.num

\* max(key_scores, key=key_scores.get): the dict iterates in insertion
\* order C, C#, ..., B; a later key replaces the best only when greater.
RECURSIVE MaxFrom(_, _, _)
MaxFrom(scores, k, best) ==
    IF k > 11 THEN best
    ELSE MaxFrom(scores, k + 1,
                 IF FGt(scores[k + 1], scores[best + 1]) THEN k ELSE best)

best_key_of(x) == MaxFrom(key_scores(x), 1, 0)

(***************************************************************************)
(* Feature extraction, audio_analyzer.py 13-116                            *)
(*                                                                         *)
(* An input is what the file system and librosa hand to the call: whether  *)
(* the path exists, the stage (if any) at which a library call raises,     *)
(* whether the decoded buffer is shorter than one analysis window, the two *)
(* tempo estimates, the chroma matrix and the summary statistics.          *)
(***************************************************************************)
Stages == {"load", "tempo", "chroma", "mfcc", "spectral"}

extract_features(in) ==
    IF ~in.exists THEN NoneValue
    ELSE IF in.fault \in Stages THEN NoneValue
    ELSE [tag |-> "Features",
          bpm |-> reconcile_bpm(in.tempo, in.tempo_alt),
          key |-> key_names[best_key_of(chroma_mean(in.chroma)) + 1],
          mfcc_mean |-> in.mfcc_mean,
          mfcc_std |-> in.mfcc_std,
          spectral_centroid_mean |-> in.centroid_mean,
          spectral_centroid_std |-> in.centroid_std,
          zcr_mean |-> in.zcr_mean,
          zcr_std |-> in.zcr_std,
          rolloff_mean |-> in.rolloff_mean,
          rolloff_std |-> in.rolloff_std]

(***************************************************************************)
(* Genre heuristics, audio_analyzer.py 120-147.  raises: an exception is   *)
(* raised inside the try block.                                            *)
(***************************************************************************)
\* A variant whose second rule admits exactly 120 BPM.
predict_genre_ge(features, raises) ==
    LET bpm == features.bpm
        spectral_centroid == features.spectral_centroid_mean
        zcr == features.zcr_mean
    IN  IF raises THEN "Unknown"
        ELSE IF bpm > 140000 /\ spectral_centroid > 3000 THEN "Electronic/Dance"
        ELSE IF bpm >= 120000 THEN "Pop/Rock"
        ELSE IF spectral_centroid < 2000 /\ zcr < 100 THEN "Classical"
        ELSE IF spectral_centroid > 2500 /\ bpm < 100000 THEN "Jazz"
        ELSE "Other"

predict_genre(features, raises) ==
    LET bpm == features.bpm
        spectral_centroid == features.spectral_centroid_mean
        zcr == features.zcr_mean
    IN  IF raises THEN "Unknown"
        ELSE IF bpm > 140000 /\ spectral_centroid > 3000 THEN "Electronic/Dance"
        ELSE IF bpm > 120000 THEN "Pop/Rock"
        ELSE IF spectral_centroid < 2000 /\ zcr < 100 THEN "Classical"
        ELSE IF spectral_centroid > 2500 /\ bpm < 100000 THEN "Jazz"
        ELSE "Other"

(***************************************************************************)
(* analyze_song, audio_analyzer.py 149-169                                 *)
(***************************************************************************)
\* A variant that keeps the previous call's outcome when extraction fails.
analyze_song_stale(in) ==
    LET features == extract_features(in)
    IN  IF features = NoneValue THEN last_result
        ELSE [tag |-> "Result",
              key |-> features.key,
              bpm |-> Round2(features.bpm),
              genre |-> predict_genre(features, in.fault = "genre"),
              features |-> features]

analyze_song(in) ==
    LET features == extract_features(in)
    IN  IF features = NoneValue THEN NoneValue
        ELSE [tag |-> "Result",
              key |-> features.key,
              bpm |-> Round2(features.bpm),
              genre |-> predict_genre(features, in.fault = "genre"),
              features |-> features]

(***************************************************************************)
(* Inputs of the single-call specification                                 *)
(***************************************************************************)
OneHot(pc) == Vec12([j \in PitchClasses |-> IF j = pc THEN 1 ELSE 0])

FrameOf(S) == Vec12([j \in PitchClasses |-> IF j \in S THEN 1 ELSE 0])

\* The tempo estimates the estimators may return, in thousandths of a BPM.
Tempos == {0, 99996, 100000, 120000, 120004, 128000, 130000, 132000,
           140000, 140004, 150000}

Centroids == {1999, 2000, 2500, 2501, 3000, 3001, 3500}

Zcrs == {99, 100}

\* Silence, a steady A, and a C major scale followed by an F# major scale.
ChromaSamples == { <<ZeroVec>>,
                   <<OneHot(9), OneHot(9)>>,
                   <<FrameOf({0, 2, 4, 5, 7, 9, 11}), FrameOf({6, 8, 10, 11, 1, 3, 5})>> }

Signal(t, ta, c, z, ch) ==
    [tempo |-> t, tempo_alt |-> ta, chroma |-> ch,
     mfcc_mean |-> "mfcc_mean", mfcc_std |-> "mfcc_std",
     centroid_mean |-> c, centroid_std |-> "centroid_std",
     zcr_mean |-> z, zcr_std |-> "zcr_std",
     rolloff_mean |-> "rolloff_mean", rolloff_std |-> "rolloff_std"]

Signals == { Signal(t, ta, c, z, ch) :
             t \in Tempos, ta \in Tempos, c \in Centroids, z \in Zcrs,
             ch \in ChromaSamples }

AudioInput(ex, f, sh, sig) ==
    [exists |-> ex, fault |-> f, short |-> sh,
     tempo |-> sig.tempo, tempo_alt |-> sig.tempo_alt, chroma |-> sig.chroma,
     mfcc_mean |-> sig.mfcc_mean, mfcc_std |-> sig.mfcc_std,
     centroid_mean |-> sig.centroid_mean, centroid_std |-> sig.centroid_std,
     zcr_mean |-> sig.zcr_mean, zcr_std |-> sig.zcr_std,
     rolloff_mean |-> sig.rolloff_mean, rolloff_std |-> sig.rolloff_std]

AnySignal == Signal(120000, 120000, 2000, 100, <<OneHot(9)>>)

\* Inputs whose every library call returns (fault "none"), or where only the
\* genre heuristics raise; and inputs that stop earlier: a missing path, or
\* a library call that raises.  A buffer shorter than one analysis window
\* (short) is padded by the library or makes a transform raise.
Inputs ==
    { AudioInput(TRUE, f, sh, sig) :
        f \in {"none", "genre"}, sh \in BOOLEAN, sig \in Signals }
    \cup { AudioInput(TRUE, f, sh, AnySignal) : f \in Stages, sh \in BOOLEAN }
    \cup { AudioInput(FALSE, "none", FALSE, AnySignal) }

(***************************************************************************)
(* Idle values of the parts a specification does not drive                 *)
(***************************************************************************)
NoFile == [owner |-> 0, content |-> "none"]

IdleAnalyze == audio = AudioInput(FALSE, "none", FALSE, AnySignal)
                 /\ apc = "idle" /\ result = NoneValue

IdleKey == chroma = <<>> /\ best_key = -1

IdleSession == memo = <<>> /\ last_input = 0 /\ last_result = NoneValue

IdleUpload == files = <<>> /\ req = <<>>


(***************************************************************************)
(* SpecAnalyze: one analyze_song call on any input                         *)
(***************************************************************************)
InitAnalyze ==
    /\ analyzer = MusicAnalyzer
    /\ audio \in Inputs
    /\ apc = "ready"
    /\ result = NoneValue
    /\ IdleKey /\ IdleSession /\ IdleUpload

AnalyzeSong ==
    /\ apc = "ready"
    /\ result' = analyze_song(audio)
    /\ apc' = "done"
    /\ UNCHANGED <<analyzer, audio, chroma, best_key, memo, last_input,
                   last_result, files, req>>

NextAnalyze == AnalyzeSong

SpecAnalyze == InitAnalyze /\ [][NextAnalyze]_vars

(***************************************************************************)
(* SpecKey: the key estimator on the chroma matrices of up to MaxFrames    *)
(* frames, each frame silent or a single pitch class at full energy        *)
(***************************************************************************)
MaxFrames == 3

Frames == {ZeroVec} \cup {OneHot(pc) : pc \in PitchClasses}

InitKey ==
    /\ analyzer = MusicAnalyzer
    /\ chroma = <<>>
    /\ best_key = -1
    /\ IdleAnalyze /\ IdleSession /\ IdleUpload

\* One more frame of the chromagram (audio_analyzer.py 50).
AddFrame ==
    /\ best_key = -1
    /\ Len(chroma) < MaxFrames
    /\ \E f \in Frames : chroma' = Append(chroma, f)
    /\ UNCHANGED <<analyzer, audio, apc, result, best_key, memo, last_input,
                   last_result, files, req>>

\* audio_analyzer.py 59-67 on the finished matrix.
EstimateKey ==
    /\ best_key = -1
    /\ Len(chroma) >= 1
    /\ best_key' = best_key_of(chroma_mean(chroma))
    /\ UNCHANGED <<analyzer, audio, apc, result, chroma, memo, last_input,
                   last_result, files, req>>

NextKey == AddFrame \/ EstimateKey

SpecKey == InitKey /\ [][NextKey]_vars

(***************************************************************************)
(* SpecSession: any sequence of analyze_song calls on one MusicAnalyzer    *)
(***************************************************************************)
SessionInputs ==
    << AudioInput(FALSE, "none", FALSE, AnySignal),
       AudioInput(TRUE, "load", FALSE, AnySignal),
       AudioInput(TRUE, "none", FALSE,
                  Signal(0, 0, 1999, 99, <<ZeroVec>>)),
       AudioInput(TRUE, "none", FALSE,
                  Signal(130000, 100000, 3500, 100, <<OneHot(9), OneHot(9)>>)),
       AudioInput(TRUE, "genre", FALSE,
                  Signal(150000, 150000, 3500, 100, <<OneHot(0), OneHot(4)>>)),
       AudioInput(TRUE, "none", TRUE,
                  Signal(128000, 132000, 2501, 99, <<OneHot(2)>>)) >>

InitSession ==
    /\ analyzer = MusicAnalyzer
    /\ memo = <<>>
    /\ last_input = 0
    /\ last_result = NoneValue
    /\ IdleAnalyze /\ IdleKey /\ IdleUpload

\* A call of analyze_song on input i; memo keeps the first outcome per input.
SessionAnalyze ==
    \E i \in DOMAIN SessionInputs :
        LET r == analyze_song(SessionInputs[i])
        IN  /\ last_input' = i
            /\ last_result' = r
            /\ memo' = IF i \in DOMAIN memo THEN memo ELSE memo @@ (i :> r)
            /\ UNCHANGED <<analyzer, audio, apc, result, chroma, best_key,
                           files, req>>

NextSession == SessionAnalyze

SpecSession == InitSession /\ [][NextSession]_vars

(***************************************************************************)
(* The upload handler, app.py 28-141.  File names are sequences of         *)
(* characters.                                                             *)
(***************************************************************************)
ALLOWED_EXTENSIONS ==
    { <<"w", "a", "v">>, <<"m", "p", "3">>, <<"f", "l", "a", "c">>,
      <<"m", "4", "a">>, <<"o", "g", "g">> }

\* str.lower() on the letters the file names use.
LowerChar(c) ==
    CASE c = "A" -> "a" [] c = "M" -> "m" [] c = "P" -> "p"
      [] c = "V" -> "v" [] c = "W" -> "w" [] OTHER -> c

Lower(s) == [i \in 1..Len(s) |-> LowerChar(s[i])]

RECURSIVE LastIndexOf(_, _, _)
LastIndexOf(s, ch, n) ==
    IF n = 0 THEN 0 ELSE IF s[n] = ch THEN n ELSE LastIndexOf(s, ch, n - 1)

\* '.' in filename and filename.rsplit('.', 1)[1].lower() in ALLOWED_EXTENSIONS
allowed_file(filename) ==
    LET i == LastIndexOf(filename, ".", Len(filename))
    IN  /\ i > 0
        /\ Lower(SubSeq(filename, i + 1, Len(filename))) \in ALLOWED_EXTENSIONS

\* werkzeug's secure_filename on these names: path separators become "_",
\* then "." and "_" are stripped from both ends.
RECURSIVE StripLeft(_)
StripLeft(s) ==
    IF s # <<>> /\ Head(s) \in {".", "_"} THEN StripLeft(Tail(s)) ELSE s

RECURSIVE StripRight(_)
StripRight(s) ==
    IF s # <<>> /\ s[Len(s)] \in {".", "_"}
    THEN StripRight(SubSeq(s, 1, Len(s) - 1)) ELSE s

secure_filename(filename) ==
    StripRight(StripLeft([i \in 1..Len(filename) |->
                            IF filename[i] = "/" THEN "_" ELSE filename[i]]))

\* "", "A.MP3", "../A.MP3", "n.txt", "mp3"
Filenames ==
    { <<>>,
      <<"A", ".", "M", "P", "3">>,
      <<".", ".", "/", "A", ".", "M", "P", "3">>,
      <<"n", ".", "t", "x", "t">>,
      <<"m", "p", "3">> }

Paths == { secure_filename(f) : f \in {g \in Filenames : allowed_file(g)} }

\* What an uploaded file holds, and what analyze_song meets at its path.
Contents == {"tone", "corrupt"}

SampleInput(content) ==
    CASE content = "tone" ->
           AudioInput(TRUE, "none", FALSE,
                      Signal(130000, 100000, 3500, 100, <<OneHot(9), OneHot(9)>>))
      [] content = "none" -> AudioInput(FALSE, "none", FALSE, AnySignal)
      [] OTHER -> AudioInput(TRUE, "load", FALSE, AnySignal)

NumRequests == 2

Requests == 1..NumRequests

NoResponse == [status |-> 0, body |-> "none"]

Rejected(status, error) == [status |-> status, body |-> error]

Success(results) ==
    [status |-> 200,
     body |-> [key |-> results.key, bpm |-> results.bpm, genre |-> results.genre]]

NewRequest(hf, fn, c) ==
    [has_file |-> hf, filename |-> fn, content |-> c, pc |-> "start",
     filepath |-> <<>>, results |-> NoneValue, response |-> NoResponse,
     wrote |-> FALSE, save_raised |-> FALSE]

\* A request with no file part, with a file whose name is rejected, or with
\* an accepted name and any content.
RequestInputs ==
    { NewRequest(TRUE, fn, c) :
        fn \in {g \in Filenames : allowed_file(g)}, c \in Contents }
    \cup { NewRequest(TRUE, fn, "corrupt") :
             fn \in {g \in Filenames : ~allowed_file(g)} }
    \cup { NewRequest(FALSE, <<>>, "none") }

Exists(path) == files[path] # NoFile

Finish(r, response) ==
    req' = [req EXCEPT ![r].pc = "done", ![r].response = response]

Goto(r, pc) == req' = [req EXCEPT ![r].pc = pc]

UploadFrame == UNCHANGED <<analyzer, audio, apc, result, chroma, best_key,
                           memo, last_input, last_result>>

\* app.py 34-40: the analyzer is constructed at import, or is None.
InitUpload ==
    /\ analyzer \in {MusicAnalyzer, NoneValue}
    /\ files = [p \in Paths |-> NoFile]
    /\ req \in [Requests -> RequestInputs]
    /\ IdleAnalyze /\ IdleKey /\ IdleSession

\* app.py 56-74 and 140-141: the checks before anything is written.
upload_validate(r) ==
    /\ req[r].pc = "start"
    /\ IF analyzer = NoneValue
         THEN Finish(r, Rejected(500, "Music analyzer not available"))
       ELSE IF ~req[r].has_file
         THEN Finish(r, Rejected(400, "No file uploaded"))
       ELSE IF req[r].filename = <<>>
         THEN Finish(r, Rejected(400, "No file selected"))
       ELSE IF allowed_file(req[r].filename)
         THEN req' = [req EXCEPT ![r].pc = "save",
                                 ![r].filepath = secure_filename(req[r].filename)]
       ELSE Finish(r, Rejected(400, "Invalid file type"))
    /\ UNCHANGED files
    /\ UploadFrame

\* app.py 78: file.save(filepath) writes the file, or raises before or
\* after the file was created.
upload_save(r) ==
    /\ req[r].pc = "save"
    /\ \E outcome \in {"saved", "raised", "raised_partial"} :
         /\ files' = CASE outcome = "saved" ->
                            [files EXCEPT ![req[r].filepath] =
                                [owner |-> r, content |-> req[r].content]]
                        [] outcome = "raised_partial" ->
                            [files EXCEPT ![req[r].filepath] =
                                [owner |-> r, content |-> "partial"]]
                        [] OTHER -> files
         /\ req' = [req EXCEPT
                      ![r].pc = IF outcome = "saved" THEN "analyze" ELSE "except",
                      ![r].wrote = (outcome # "raised"),
                      ![r].save_raised = (outcome # "saved")]
    /\ UploadFrame

\* app.py 83-86: analyze_song reads whatever the path holds now.
upload_analyze(r) ==
    /\ req[r].pc = "analyze"
    /\ LET results == analyze_song(SampleInput(files[req[r].filepath].content))
       IN  req' = [req EXCEPT
                     ![r].results = results,
                     ![r].pc = IF results # NoneValue THEN "remove" ELSE "failed"]
    /\ UNCHANGED files
    /\ UploadFrame

\* app.py 89-99: os.remove, which raises when the file is gone, then 200.
upload_remove(r) ==
    /\ req[r].pc = "remove"
    /\ IF Exists(req[r].filepath)
         THEN /\ files' = [files EXCEPT ![req[r].filepath] = NoFile]
              /\ Finish(r, Success(req[r].results))
         ELSE /\ UNCHANGED files
              /\ Goto(r, "except")
    /\ UploadFrame

\* app.py 101-102: no results; os.path.exists(filepath).
upload_failed_exists(r) ==
    /\ req[r].pc = "failed"
    /\ IF Exists(req[r].filepath)
         THEN Goto(r, "failed_remove")
         ELSE Finish(r, Rejected(500, "Failed to analyze audio file"))
    /\ UNCHANGED files
    /\ UploadFrame

\* The same branch without its os.remove.
upload_failed_remove_skipped(r) ==
    /\ req[r].pc = "failed_remove"
    /\ Finish(r, Rejected(500, "Failed to analyze audio file"))
    /\ UNCHANGED files
    /\ UploadFrame

\* app.py 103-104: os.remove(filepath), then 500.
upload_failed_remove(r) ==
    /\ req[r].pc = "failed_remove"
    /\ IF Exists(req[r].filepath)
         THEN /\ files' = [files EXCEPT ![req[r].filepath] = NoFile]
              /\ Finish(r, Rejected(500, "Failed to analyze audio file"))
         ELSE /\ UNCHANGED files
              /\ Goto(r, "except")
    /\ UploadFrame

\* app.py 106-113: the except branch; os.path.exists(filepath).
upload_except_exists(r) ==
    /\ req[r].pc = "except"
    /\ IF Exists(req[r].filepath)
         THEN Goto(r, "except_remove")
         ELSE Finish(r, Rejected(500, "Analysis failed"))
    /\ UNCHANGED files
    /\ UploadFrame

\* app.py 115-138: os.remove(filepath), then 500; when the file is gone the
\* exception leaves the handler and the framework answers 500.
upload_except_remove(r) ==
    /\ req[r].pc = "except_remove"
    /\ IF Exists(req[r].filepath)
         THEN /\ files' = [files EXCEPT ![req[r].filepath] = NoFile]
              /\ Finish(r, Rejected(500, "Analysis failed"))
         ELSE /\ UNCHANGED files
              /\ Finish(r, Rejected(500, "Internal Server Error"))
    /\ UploadFrame

upload_file(r) ==
    \/ upload_validate(r)
    \/ upload_save(r)
    \/ upload_analyze(r)
    \/ upload_remove(r)
    \/ upload_failed_exists(r)
    \/ upload_failed_remove(r)
    \/ upload_except_exists(r)
    \/ upload_except_remove(r)

NextUpload == \E r \in Requests : upload_file(r)

SpecUpload == InitUpload /\ [][NextUpload]_vars

(***************************************************************************)
(* Claims on one analyze_song call (SpecAnalyze)                           *)
(***************************************************************************)
KeyNameSet == {key_names[i] : i \in 1..12}

GenreLabels == {"Electronic/Dance", "Pop/Rock", "Classical", "Jazz", "Other"}

FeatureFields == {"bpm", "key", "mfcc_mean", "mfcc_std",
                  "spectral_centroid_mean", "spectral_centroid_std",
                  "zcr_mean", "zcr_std", "rolloff_mean", "rolloff_std"}

\* C1: every outcome of analyze_song is the failure value or a complete
\* result: key, bpm, genre and features populated, bpm > 0, key one of the
\* 12 pitch-class names, genre one of the five labels.  Stated on the calls
\* in which no library call and no heuristic raises, for every pair of
\* tempo estimates.
C1_CompleteOrFailure ==
    (apc = "done" /\ audio.fault = "none") =>
        \/ result = NoneValue
        \/ /\ result.tag = "Result"
           /\ result.bpm > 0
           /\ result.key \in KeyNameSet
           /\ result.genre \in GenreLabels
           /\ FeatureFields \subseteq DOMAIN result.features
           /\ result.features.bpm > 0

\* C2: on every classified (bpm, centroid, zcr) the label follows the
\* ordered rule table with strict thresholds; 150 BPM with centroid 3500
\* is Electronic/Dance and exactly 120 BPM is never Pop/Rock.
C2_GenreRuleTable ==
    (apc = "done" /\ result # NoneValue /\ audio.fault = "none") =>
        LET bpm == result.features.bpm
            c == result.features.spectral_centroid_mean
            z == result.features.zcr_mean
            g == result.genre
            r1 == bpm > 140000 /\ c > 3000
            r2 == bpm > 120000
            r3 == c < 2000 /\ z < 100
            r4 == c > 2500 /\ bpm < 100000
        IN  /\ (g = "Electronic/Dance") <=> r1
            /\ (g = "Pop/Rock") <=> (~r1 /\ r2)
            /\ (g = "Classical") <=> (~r1 /\ ~r2 /\ r3)
            /\ (g = "Jazz") <=> (~r1 /\ ~r2 /\ ~r3 /\ r4)
            /\ (g = "Other") <=> (~r1 /\ ~r2 /\ ~r3 /\ ~r4)
            /\ (bpm = 150000 /\ c = 3500) => g = "Electronic/Dance"
            /\ bpm = 120000 => g # "Pop/Rock"

C2_Witness ==
    /\ apc = "done" /\ result # NoneValue /\ audio.fault = "none"
    /\ result.features.bpm = 120000
    /\ result.features.spectral_centroid_mean = 3001
    /\ result.genre = "Other"

\* C3: the reported bpm is the mean of the two estimates when they differ
\* by more than 20 BPM and the primary estimate otherwise, a difference of
\* exactly 20 included; (130, 100) gives 115 and (128, 132) gives 128.
C3_TempoReconciliation ==
    (apc = "done" /\ result # NoneValue) =>
        LET p == audio.tempo
            a == audio.tempo_alt
            bpm == result.features.bpm
        IN  /\ (p - a > 20000 \/ a - p > 20000) => 2 * bpm = p + a
            /\ (p - a <= 20000 /\ a - p <= 20000) => bpm = p
            /\ (p = 130000 /\ a = 100000) => bpm = 115000
            /\ (p = 128000 /\ a = 132000) => bpm = 128000

C3_Witness ==
    /\ apc = "done" /\ result # NoneValue
    /\ audio.tempo = 120000 /\ audio.tempo_alt = 140000
    /\ result.features.bpm = 120000

\* C5: when any stage fails (missing file, load, tempo, key, feature
\* aggregation, genre classification) analyze_song returns the failure
\* value and no result record.
C5_AllOrNothing ==
    (apc = "done" /\ (~audio.exists \/ audio.fault # "none")) =>
        result = NoneValue

\* C6: a buffer shorter than one analysis window yields a Failure tagged
\* with the kind TransformError.  Stated on the calls in which the genre
\* heuristics do not raise.
C6_ShortBufferTransformError ==
    (apc = "done" /\ audio.short /\ audio.fault # "genre") =>
        (result.tag = "Failure" /\ result.kind = "TransformError")

(***************************************************************************)
(* Claims on the key estimator (SpecKey)                                   *)
(***************************************************************************)
Scores == key_scores(chroma_mean(chroma))

UniqueMax ==
    LET sc == Scores
    IN  \E k \in PitchClasses :
            \A j \in PitchClasses \ {k} : FGt(sc[k + 1], sc[j + 1])

\* C4 as claimed: for every profile, ties included, the profile shifted up
\* one semitone selects the next key (mod 12).  Stated on the profiles whose
\* correlations are defined (not constant).
C4_RotationConsistentAlways ==
    (best_key # -1 /\ Var12(chroma_mean(chroma)) # 0) =>
        best_key_of(Roll(chroma_mean(chroma), 1)) = (best_key + 1) % 12

\* C4 amended: when exactly one template has the maximum correlation, the
\* profile shifted up one semitone selects the next key (mod 12).
C4_RotationConsistentUnique ==
    (best_key # -1 /\ UniqueMax) =>
        best_key_of(Roll(chroma_mean(chroma), 1)) = (best_key + 1) % 12

\* B wraps to C: a unique maximum at B.
C4_Witness ==
    /\ best_key = 11 /\ UniqueMax
    /\ best_key_of(Roll(chroma_mean(chroma), 1)) = 0

\* C9: the selected key's correlation is greater than or equal to every
\* other template's, and among exact ties the lowest index is selected.
C9_ArgmaxLowestIndex ==
    best_key # -1 =>
        LET sc == Scores
        IN  \A j \in PitchClasses :
                /\ FGe(sc[best_key + 1], sc[j + 1])
                /\ (FGe(sc[j + 1], sc[best_key + 1]) => best_key <= j)

\* Supporting check for C9: on every profile whose correlations are defined
\* the selection is the argmax with the lowest index among exact ties.
ArgmaxLowestIndexWhenDefined ==
    (best_key # -1 /\ Var12(chroma_mean(chroma)) # 0) =>
        LET sc == Scores
        IN  \A j \in PitchClasses :
                /\ FGe(sc[best_key + 1], sc[j + 1])
                /\ (FGe(sc[j + 1], sc[best_key + 1]) => best_key <= j)

AloneResponse(r) ==
    IF analyzer = NoneValue THEN Rejected(500, "Music analyzer not available")
    ELSE IF ~req[r].has_file THEN Rejected(400, "No file uploaded")
    ELSE IF req[r].filename = <<>> THEN Rejected(400, "No file selected")
    ELSE IF ~allowed_file(req[r].filename) THEN Rejected(400, "Invalid file type")
    ELSE IF req[r].save_raised THEN Rejected(500, "Analysis failed")
    ELSE LET alone == analyze_song(SampleInput(req[r].content))
         IN  IF alone # NoneValue THEN Success(alone)
             ELSE Rejected(500, "Failed to analyze audio file")

\* C7: under every interleaving each request's outcome is the one it would
\* get if it ran alone, uploads that resolve to the same file name included.
C7_NoCrossRequestInteraction ==
    \A r \in Requests :
        req[r].pc = "done" => req[r].response = AloneResponse(r)

\* C10: when the handler of a request that saved its file has returned, the
\* file it saved is no longer in the upload folder, whichever path it took;
\* and a request answered 400 never wrote a file.
C10_UploadCleanup ==
    \A r \in Requests :
        req[r].pc = "done" =>
            /\ \A p \in Paths : files[p].owner # r
            /\ req[r].response.status = 400 => ~req[r].wrote
            /\ (\A q \in Requests \ {r} : req[q].pc \in {"start", "done"})
                   => (req[r].filepath = <<>> \/ ~Exists(req[r].filepath))

\* A request that saved an undecodable file, got no results, removed the
\* file and answered 500.
C10_Witness ==
    \E r \in Requests :
        /\ req[r].pc = "done"
        /\ req[r].wrote /\ ~req[r].save_raised
        /\ req[r].results = NoneValue
        /\ req[r].response = Rejected(500, "Failed to analyze audio file")
        /\ ~Exists(req[r].filepath)

=============================================================================
